---------------------------- MODULE Spec2Model ----------------------------
(***************************************************************************)
(* A model of src/app.py, the status-board web application.                *)
(*                                                                         *)
(* State: the three backend tables (resources, status_updates, upvotes),   *)
(* the cookie session of the browser, the request handlers in flight, and  *)
(* the response sent by the latest step (NoResp when the step sent none).  *)
(* A handler that makes several backend calls is one action per backend    *)
(* call (each call is one round trip, atomic at the backend); a handler    *)
(* with at most one backend call is one action.  Spec lets the handlers of *)
(* the request slots interleave; SpecSeq uses one slot only, so that every *)
(* handler runs to completion before the next one starts.                  *)
(*                                                                         *)
(* A backend call that raises is modelled where the program catches it     *)
(* (login, register) and where it leaves a partial write behind            *)
(* (create_post, between its two inserts).                                 *)
(***************************************************************************)
EXTENDS Integers, Sequences, FiniteSets, TLC

VARIABLES resources, status_updates, upvotes, session, req, response

vars == <<resources, status_updates, upvotes, session, req, response>>

(* ------------------------------ bounds -------------------------------- *)
\* rows the three tables hold together
MaxRows == 3
\* request handlers that may be in flight at once under Spec
Reqs == {1, 2}

(* ----------------------------- inputs --------------------------------- *)
Usernames == {"ann@x.org", "bob@x.org"}
Titles == {"Canteen"}
\* the four status fields of the update_post / create_post form
FormA == [description |-> "open", crowd |-> "low", chips |-> "yes", queue |-> "2"]
FormB == [description |-> "busy", crowd |-> "high", chips |-> "no", queue |-> "9"]
Forms == {FormA, FormB}
\* sign_in_with_password / sign_up: a user, no user, or an exception
AuthOutcomes == {"user", "none", "raise"}
ErrorMessages == {"Invalid login credentials"}
\* an id that is no resource's id (a path or a body may carry any string)
BogusId == 0
None == "None"

\* the id the backend's auth service holds for an account (user.user.id)
UserIdOf(username) == IF username = "ann@x.org" THEN "uid-ann" ELSE "uid-bob"

(* ------------------------------ session ------------------------------- *)
EmptySession == [k \in {} |-> None]
SessionSet(s, k, v) == [x \in (DOMAIN s) \cup {k} |-> IF x = k THEN v ELSE s[x]]
SessionGet(s, k) == IF k \in DOMAIN s THEN s[k] ELSE None
\* mutant: the login check is dropped
LoggedInUnchecked(s) == TRUE
\* 'username' in session
LoggedIn(s) == "username" \in DOMAIN s
\* truthiness of session.get('is_admin')
IsAdmin(s) == "is_admin" \in DOMAIN s /\ s["is_admin"] = TRUE

(* ----------------------------- responses ------------------------------ *)
Resp(handler, code, body, error, n, ps) ==
    [handler |-> handler, code |-> code, body |-> body, error |-> error,
     upvotes |-> n, posts |-> ps]
NoResp == Resp("", 0, "", "", 0, <<>>)
Redirect(handler, target) == Resp(handler, 302, target, "", 0, <<>>)
Render(handler, template, error) == Resp(handler, 200, template, error, 0, <<>>)
RenderPosts(handler, template, ps) == Resp(handler, 200, template, "", 0, ps)
JsonError(handler, code, error) == Resp(handler, code, "json", error, 0, <<>>)
JsonSuccess(handler, count) == Resp(handler, 200, "json", "", count, <<>>)
\* the framework's answer to an exception no handler catches
ServerError(handler) == Resp(handler, 500, "Internal Server Error", "", 0, <<>>)

(* --------------------------- request slots ---------------------------- *)
Slot(pc, rid, uid, form, status) ==
    [pc |-> pc, resource_id |-> rid, user_id |-> uid, form |-> form, status |-> status]
Idle == Slot("idle", BogusId, None, FormA, FALSE)
\* a new request is taken by the first slot that handles none
Free(r) == req[r].pc = "idle" /\ \A q \in Reqs : q < r => req[q].pc # "idle"

(* --------------------------- backend tables --------------------------- *)
ResourceIds == {x.id : x \in resources}
StatusOf(rid) == {s \in status_updates : s.resource_id = rid}
UpvotesOf(rid) == {u \in upvotes : u.resource_id = rid}
UpvotesBy(rid, uid) == {u \in upvotes : u.resource_id = rid /\ u.user_id = uid}

\* str(uuid4()): an id no row of the table has (no row is ever deleted)
FreshId(table) == Cardinality(table) + 1
\* created_at, set by the backend's clock at the insert
Now == Cardinality(status_updates) + 1

ResourceRow(id, title) == [id |-> id, name |-> title, image_url |-> None]
StatusRow(id, rid, form, at) ==
    [id |-> id, resource_id |-> rid, status_message |-> form.description,
     crowd_level |-> form.crowd, chips_available |-> form.chips,
     queue_length |-> form.queue, created_at |-> at]
UpvoteRow(id, rid, uid) == [id |-> id, resource_id |-> rid, user_id |-> uid]

\* mutant: the check compares user_id with the session's username
ExistingUpvoteByName(rid, uid) == UpvotesBy(rid, SessionGet(session, "username")) # {}
\* mutant: the check filters on the id column instead of resource_id
ExistingUpvoteWrongColumn(rid, uid) ==
    {u \in upvotes : u.id = rid /\ u.user_id = uid} # {}
\* .eq('resource_id', rid).eq('user_id', uid) on upvotes returned a row
ExistingUpvote(rid, uid) == UpvotesBy(rid, uid) # {}
\* mutant: the count query loses its resource_id filter
CountAllUpvotes(rid) == Cardinality(upvotes)
\* mutant: the count is of the users that upvoted, not of the rows
CountUpvoters(rid) == Cardinality({u.user_id : u \in UpvotesOf(rid)})
\* select('id', count='exact').eq('resource_id', rid)
CountUpvotes(rid) == Cardinality(UpvotesOf(rid))
\* mutant: the update loses its resource_id filter
UpdatedStatusNoFilter(rid, form) ==
    {[s EXCEPT !.crowd_level = form.crowd, !.chips_available = form.chips,
               !.queue_length = form.queue, !.status_message = form.description]
       : s \in status_updates}
\* mutant: the update deletes the matching rows and inserts one in their place
UpdatedStatusReplaced(rid, form) ==
    {s \in status_updates : s.resource_id # rid}
       \cup {StatusRow(FreshId(status_updates), rid, form, Now)}
\* update({...}).eq('resource_id', rid): every matching row gets the four fields
UpdatedStatus(rid, form) ==
    {IF s.resource_id = rid
        THEN [s EXCEPT !.crowd_level = form.crowd, !.chips_available = form.chips,
                       !.queue_length = form.queue, !.status_message = form.description]
        ELSE s : s \in status_updates}

\* rows in the tables, and rows the handlers in flight are still to insert
Rows == Cardinality(resources) + Cardinality(status_updates) + Cardinality(upvotes)
Pending ==
    Cardinality({r \in Reqs : req[r].pc \in {"insert", "insert_status"}
                               \/ (req[r].pc = "write" /\ ~req[r].status)})
Room(n) == Rows + Pending + n <= MaxRows

Init ==
    /\ resources = {}
    /\ status_updates = {}
    /\ upvotes = {}
    /\ session = EmptySession
    /\ req = [r \in Reqs |-> Idle]
    /\ response = NoResp

(* --------------------------- fetch_posts ------------------------------ *)
\* mutant: desc=True is dropped, the oldest status row is taken
OldestStatus(rid) ==
    CHOOSE s \in StatusOf(rid) : \A t \in StatusOf(rid) : s.created_at <= t.created_at

\* .order('created_at', desc=True).limit(1): the newest status row, if any
LatestStatus(rid) ==
    CHOOSE s \in StatusOf(rid) : \A t \in StatusOf(rid) : t.created_at <= s.created_at

MakePost(resource) ==
    LET has == StatusOf(resource.id) # {}
        status == LatestStatus(resource.id)
    IN [id |-> resource.id,
        title |-> resource.name,
        image_url |-> resource.image_url,
        description |-> IF has THEN status.status_message ELSE "",
        upvotes |-> CountUpvotes(resource.id),
        comments |-> 0,
        crowd |-> IF has THEN status.crowd_level ELSE "",
        chips |-> IF has THEN status.chips_available ELSE "",
        queue |-> IF has THEN status.queue_length ELSE ""]

\* mutant: reverse=True is dropped, the sort is ascending
InsertPostAscending(sorted, p) ==
    LET k == Cardinality({i \in 1..Len(sorted) : sorted[i].upvotes <= p.upvotes})
    IN SubSeq(sorted, 1, k) \o <<p>> \o SubSeq(sorted, k + 1, Len(sorted))

\* list.sort(key=upvotes, reverse=True) is stable: a post goes behind every
\* post already placed whose upvotes are not smaller
InsertPost(sorted, p) ==
    LET k == Cardinality({i \in 1..Len(sorted) : sorted[i].upvotes >= p.upvotes})
    IN SubSeq(sorted, 1, k) \o <<p>> \o SubSeq(sorted, k + 1, Len(sorted))

RECURSIVE SortByUpvotes(_)
SortByUpvotes(ps) ==
    IF ps = <<>> THEN <<>>
    ELSE InsertPost(SortByUpvotes(SubSeq(ps, 1, Len(ps) - 1)), ps[Len(ps)])

\* rs: the resource rows in the order the backend returned them
fetch_posts(rs) == SortByUpvotes([i \in 1..Len(rs) |-> MakePost(rs[i])])

\* the orders in which select("*") may return the rows of a table
Orderings(S) ==
    {f \in [1..Cardinality(S) -> S] : \A x \in S : \E i \in 1..Cardinality(S) : f[i] = x}

(* ------------------------------ upvote -------------------------------- *)
\* POST /upvote with body {resource_id: rid}, up to the existence check
UpvoteRequest(r, rid) ==
    /\ Free(r)
    /\ IF ~LoggedIn(session)
       THEN /\ response' = JsonError("upvote", 401, "Login required")
            /\ req' = req
       ELSE LET uid == SessionGet(session, "user_id")
            IN IF ExistingUpvote(rid, uid)
               THEN /\ response' = JsonError("upvote", 409, "Already upvoted")
                    /\ req' = req
               ELSE /\ Room(1)
                    /\ response' = NoResp
                    /\ req' = [req EXCEPT ![r] = Slot("insert", rid, uid, FormA, FALSE)]
    /\ UNCHANGED <<resources, status_updates, upvotes, session>>

UpvoteCheck(r) == \E rid \in ResourceIds \cup {BogusId} : UpvoteRequest(r, rid)

\* mutant: the insert is skipped when the pair is already there
UpvoteInsertIfAbsent(r) ==
    /\ req[r].pc = "insert"
    /\ upvotes' = IF UpvotesBy(req[r].resource_id, req[r].user_id) # {} THEN upvotes
                  ELSE upvotes \cup {UpvoteRow(FreshId(upvotes), req[r].resource_id, req[r].user_id)}
    /\ req' = [req EXCEPT ![r].pc = "count"]
    /\ response' = NoResp
    /\ UNCHANGED <<resources, status_updates, session>>

UpvoteInsert(r) ==
    /\ req[r].pc = "insert"
    /\ upvotes' = upvotes \cup {UpvoteRow(FreshId(upvotes), req[r].resource_id, req[r].user_id)}
    /\ req' = [req EXCEPT ![r].pc = "count"]
    /\ response' = NoResp
    /\ UNCHANGED <<resources, status_updates, session>>

UpvoteCount(r) ==
    /\ req[r].pc = "count"
    /\ response' = JsonSuccess("upvote", CountUpvotes(req[r].resource_id))
    /\ req' = [req EXCEPT ![r] = Idle]
    /\ UNCHANGED <<resources, status_updates, upvotes, session>>

(* --------------------------- plain pages ------------------------------ *)
Index(r) ==
    /\ Free(r)
    /\ \E rs \in Orderings(resources) :
         response' = RenderPosts("index", "index.html", fetch_posts(rs))
    /\ UNCHANGED <<resources, status_updates, upvotes, session, req>>

About(r) ==
    /\ Free(r)
    /\ response' = Render("about", "about.html", "")
    /\ UNCHANGED <<resources, status_updates, upvotes, session, req>>

Profile(r) ==
    /\ Free(r)
    /\ response' = IF ~LoggedIn(session) THEN Redirect("profile", "/login")
                   ELSE Render("profile", "profile.html", "")
    /\ UNCHANGED <<resources, status_updates, upvotes, session, req>>

Admin(r) ==
    /\ Free(r)
    /\ response' = IF ~IsAdmin(session) THEN Redirect("admin", "/")
                   ELSE Render("admin", "admin.html", "")
    /\ UNCHANGED <<resources, status_updates, upvotes, session, req>>

(* ------------------------------ login --------------------------------- *)
\* mutant: the login forgets the is_admin key
LoginSessionNoAdmin(s, username) ==
    SessionSet(SessionSet(s, "username", username), "user_id", UserIdOf(username))

\* mutant: the login grants the admin flag
LoginSessionAdmin(s, username) ==
    SessionSet(SessionSet(SessionSet(s, "username", username), "is_admin", TRUE),
               "user_id", UserIdOf(username))

LoginSession(s, username) ==
    SessionSet(SessionSet(SessionSet(s, "username", username), "is_admin", FALSE),
               "user_id", UserIdOf(username))

\* POST /login
LoginRequest(r, username, out, msg) ==
    /\ Free(r)
    /\ \/ /\ out = "user"
          /\ session' = LoginSession(session, username)
          /\ response' = Redirect("login", "/profile")
       \/ /\ out = "none"
          /\ session' = session
          /\ response' = Render("login", "login.html", "Invalid credentials")
       \/ /\ out = "raise"
          /\ session' = session
          /\ response' = Render("login", "login.html", msg)
    /\ UNCHANGED <<resources, status_updates, upvotes, req>>

Login(r) ==
    \E username \in Usernames, out \in AuthOutcomes, msg \in ErrorMessages :
        LoginRequest(r, username, out, msg)

\* GET /login
LoginForm(r) ==
    /\ Free(r)
    /\ response' = Render("login", "login.html", "")
    /\ UNCHANGED <<resources, status_updates, upvotes, session, req>>

(* ----------------------------- register ------------------------------- *)
\* mutant: the registration forgets the user_id key
RegisterSessionNoUserId(s, username) == SessionSet(s, "username", username)

RegisterSession(s, username) ==
    SessionSet(SessionSet(s, "username", username), "user_id", UserIdOf(username))

\* POST /register
RegisterRequest(r, username, out, msg) ==
    /\ Free(r)
    /\ \/ /\ out = "user"
          /\ session' = RegisterSession(session, username)
          /\ response' = Redirect("register", "/profile")
       \/ /\ out = "none"
          /\ session' = session
          /\ response' = Render("register", "register.html", "Registration failed")
       \/ /\ out = "raise"
          /\ session' = session
          /\ response' = Render("register", "register.html", msg)
    /\ UNCHANGED <<resources, status_updates, upvotes, req>>

Register(r) ==
    \E username \in Usernames, out \in AuthOutcomes, msg \in ErrorMessages :
        RegisterRequest(r, username, out, msg)

\* GET /register
RegisterForm(r) ==
    /\ Free(r)
    /\ response' = Render("register", "register.html", "")
    /\ UNCHANGED <<resources, status_updates, upvotes, session, req>>

(* ------------------------------ logout -------------------------------- *)
\* mutant: the logout pops the username only
LogoutPopsUsername(r) ==
    /\ Free(r)
    /\ session' = [k \in (DOMAIN session) \ {"username"} |-> session[k]]
    /\ response' = Redirect("logout", "/login")
    /\ UNCHANGED <<resources, status_updates, upvotes, req>>

Logout(r) ==
    /\ Free(r)
    /\ session' = IF ~LoggedIn(session) THEN session ELSE EmptySession
    /\ response' = Redirect("logout", "/login")
    /\ UNCHANGED <<resources, status_updates, upvotes, req>>

(* ---------------------------- update_post ----------------------------- *)
\* mutant: the route lacks its login_required decorator
UpdateRequestNoDecorator(r, post_id, form) ==
    /\ Free(r)
    /\ LET status == StatusOf(post_id) # {}
       IN /\ status \/ Room(1)
          /\ response' = NoResp
          /\ req' = [req EXCEPT ![r] = Slot("write", post_id, None, form, status)]
    /\ UNCHANGED <<resources, status_updates, upvotes, session>>

\* POST /update_post/<post_id>, up to the select
UpdateRequest(r, post_id, form) ==
    /\ Free(r)
    /\ IF ~LoggedIn(session)
       THEN /\ response' = Redirect("update_post", "/login")
            /\ req' = req
       ELSE LET status == StatusOf(post_id) # {}
            IN /\ status \/ Room(1)
               /\ response' = NoResp
               /\ req' = [req EXCEPT ![r] = Slot("write", post_id, None, form, status)]
    /\ UNCHANGED <<resources, status_updates, upvotes, session>>

UpdateSelect(r) ==
    \E post_id \in ResourceIds \cup {BogusId}, form \in Forms : UpdateRequest(r, post_id, form)

\* mutant: the handler inserts whatever its select found
UpdateWriteInsertOnly(r) ==
    /\ req[r].pc = "write"
    /\ status_updates' = status_updates \cup
           {StatusRow(FreshId(status_updates), req[r].resource_id, req[r].form, Now)}
    /\ response' = Redirect("update_post", "/")
    /\ req' = [req EXCEPT ![r] = Idle]
    /\ UNCHANGED <<resources, upvotes, session>>

UpdateWrite(r) ==
    /\ req[r].pc = "write"
    /\ status_updates' =
         IF req[r].status
         THEN UpdatedStatus(req[r].resource_id, req[r].form)
         ELSE status_updates \cup
                {StatusRow(FreshId(status_updates), req[r].resource_id, req[r].form, Now)}
    /\ response' = Redirect("update_post", "/")
    /\ req' = [req EXCEPT ![r] = Idle]
    /\ UNCHANGED <<resources, upvotes, session>>

(* ---------------------------- create_post ----------------------------- *)
\* POST /create_post, up to the insert of the resource
CreateRequest(r, title, form) ==
    /\ Free(r)
    /\ IF ~LoggedIn(session)
       THEN /\ response' = Redirect("create_post", "/login")
            /\ req' = req
            /\ resources' = resources
       ELSE /\ Room(2)
            /\ resources' = resources \cup {ResourceRow(FreshId(resources), title)}
            /\ response' = NoResp
            /\ req' = [req EXCEPT ![r] = Slot("insert_status", FreshId(resources), None, form, FALSE)]
    /\ UNCHANGED <<status_updates, upvotes, session>>

CreateInsertResource(r) ==
    \E title \in Titles, form \in Forms : CreateRequest(r, title, form)

\* mutant: a failed status insert takes the resource row back
CreateStatusRollback(r, ok) ==
    /\ req[r].pc = "insert_status"
    /\ IF ok
       THEN /\ status_updates' = status_updates \cup
                   {StatusRow(FreshId(status_updates), req[r].resource_id, req[r].form, Now)}
            /\ resources' = resources
            /\ response' = Redirect("create_post", "/")
       ELSE /\ status_updates' = status_updates
            /\ resources' = {x \in resources : x.id # req[r].resource_id}
            /\ response' = ServerError("create_post")
    /\ req' = [req EXCEPT ![r] = Idle]
    /\ UNCHANGED <<upvotes, session>>

\* the insert of the first status update; ok: the backend call returns
CreateStatus(r, ok) ==
    /\ req[r].pc = "insert_status"
    /\ IF ok
       THEN /\ status_updates' = status_updates \cup
                   {StatusRow(FreshId(status_updates), req[r].resource_id, req[r].form, Now)}
            /\ response' = Redirect("create_post", "/")
       ELSE /\ status_updates' = status_updates
            /\ response' = ServerError("create_post")
    /\ req' = [req EXCEPT ![r] = Idle]
    /\ UNCHANGED <<resources, upvotes, session>>

CreateInsertStatus(r) == \E ok \in BOOLEAN : CreateStatus(r, ok)

\* GET /create_post
CreatePostForm(r) ==
    /\ Free(r)
    /\ response' = IF ~LoggedIn(session) THEN Redirect("create_post", "/login")
                   ELSE Render("create_post", "create_post.html", "")
    /\ UNCHANGED <<resources, status_updates, upvotes, session, req>>

(* ------------------------------ dispatch ------------------------------ *)
Handler(r) ==
    \/ UpvoteCheck(r) \/ UpvoteInsert(r) \/ UpvoteCount(r)
    \/ Index(r) \/ About(r) \/ Profile(r) \/ Admin(r)
    \/ Login(r) \/ LoginForm(r)
    \/ Register(r) \/ RegisterForm(r)
    \/ Logout(r)
    \/ UpdateSelect(r) \/ UpdateWrite(r)
    \/ CreateInsertResource(r) \/ CreateInsertStatus(r) \/ CreatePostForm(r)

Next == \E r \in Reqs : Handler(r)

Spec == Init /\ [][Next]_vars

\* one request slot: a handler runs to completion before the next one starts
SeqNext == Handler(1)

SpecSeq == Init /\ [][SeqNext]_vars

(* ------------------------------ claims -------------------------------- *)
RequestIds == ResourceIds \cup {BogusId}
Fields(s) == [description |-> s.status_message, crowd |-> s.crowd_level,
              chips |-> s.chips_available, queue |-> s.queue_length]

\* C1: an upvote request from a session with a username, for a resource_id
\* that the upvotes table already holds with the session's user_id, is
\* answered 409 'Already upvoted' and inserts nothing: the upvotes table is
\* the same after the request as before it.
C1_DuplicateUpvoteRejected ==
    [][\A r \in Reqs, rid \in RequestIds :
         (/\ "username" \in DOMAIN session
          /\ \E u \in upvotes : u.resource_id = rid /\ u.user_id = SessionGet(session, "user_id")
          /\ UpvoteRequest(r, rid))
         => /\ response' = JsonError("upvote", 409, "Already upvoted")
            /\ upvotes' = upvotes
            /\ req' = req]_vars

\* a duplicate upvote has just been rejected
C1_Witness ==
    /\ response = JsonError("upvote", 409, "Already upvoted")
    /\ \E u \in upvotes : u.user_id = SessionGet(session, "user_id")

\* C2: when handlers do not interleave, the upvotes table holds at most one
\* row for each (resource_id, user_id) pair in every reachable state.
C2_UniquePairSequential ==
    \A u1, u2 \in upvotes :
        (u1.resource_id = u2.resource_id /\ u1.user_id = u2.user_id) => u1 = u2

\* two users have upvoted the same resource and a repeat has been rejected
C2_Witness ==
    /\ \E u1, u2 \in upvotes : u1.resource_id = u2.resource_id /\ u1.user_id # u2.user_id
    /\ response = JsonError("upvote", 409, "Already upvoted")

\* C3: two concurrent upvote requests with the same user_id and resource_id
\* can both pass the check; a request that has passed the check inserts its
\* own row whatever the table holds by then and answers with success, so two
\* rows for one (resource_id, user_id) pair come to exist.
C3_RacingUpvotesBothInsert ==
    /\ [](\A r1, r2 \in Reqs :
            (/\ r1 # r2
             /\ req[r1].pc = "count" /\ req[r2].pc = "count"
             /\ req[r1].resource_id = req[r2].resource_id
             /\ req[r1].user_id = req[r2].user_id)
            => Cardinality({u \in upvotes : /\ u.resource_id = req[r1].resource_id
                                            /\ u.user_id = req[r1].user_id}) >= 2)
    /\ [][\A r \in Reqs :
            (req[r].pc = "count" /\ req'[r].pc = "idle")
            => /\ response'.handler = "upvote" /\ response'.code = 200
               /\ response'.error = ""
               /\ response'.upvotes >= 1]_vars

\* both racing requests are done, the later one answered success, and the
\* table holds two rows for one pair
C3_Witness ==
    /\ \A r \in Reqs : req[r].pc = "idle"
    /\ response.handler = "upvote" /\ response.code = 200 /\ response.upvotes = 2
    /\ \E u1, u2 \in upvotes :
         u1 # u2 /\ u1.resource_id = u2.resource_id /\ u1.user_id = u2.user_id

\* C4: an upvote request from a session without a username is answered
\* 401 'Login required' and changes neither a table nor the session,
\* whatever resource_id it carries.
C4_UpvoteNeedsLogin ==
    [][\A r \in Reqs, rid \in RequestIds :
         ("username" \notin DOMAIN session /\ UpvoteRequest(r, rid))
         => /\ response' = JsonError("upvote", 401, "Login required")
            /\ upvotes' = upvotes /\ resources' = resources
            /\ status_updates' = status_updates
            /\ session' = session /\ req' = req]_vars

\* an anonymous upvote has just been refused while the tables hold rows
C4_Witness ==
    /\ response = JsonError("upvote", 401, "Login required")
    /\ upvotes # {}

\* C5: the listing has exactly one Post per resource row, and each Post's
\* upvotes is the number of upvote rows with that resource's id.
C5_OnePostPerResource ==
    response.handler = "index" =>
        LET ps == response.posts
        IN /\ Len(ps) = Cardinality(resources)
           /\ {ps[i].id : i \in 1..Len(ps)} = {x.id : x \in resources}
           /\ \A i \in 1..Len(ps) :
                ps[i].upvotes = Cardinality({u \in upvotes : u.resource_id = ps[i].id})

\* a listing of two resources, one upvoted, with an upvote row of another id
C5_Witness ==
    /\ response.handler = "index"
    /\ Len(response.posts) = 2
    /\ \E i \in 1..2 : response.posts[i].upvotes = 1
    /\ Cardinality(upvotes) = 1

\* C6: the listing is ordered by upvotes descending.
C6_SortedByUpvotes ==
    response.handler = "index" =>
        \A i, j \in 1..Len(response.posts) :
            i < j => response.posts[i].upvotes >= response.posts[j].upvotes

\* a listing in which the resource created later comes first
C6_Witness ==
    /\ response.handler = "index"
    /\ Len(response.posts) = 2
    /\ response.posts[1].id = 2
    /\ response.posts[1].upvotes > response.posts[2].upvotes

\* C7: an authenticated update_post for resource id P is an upsert.  When
\* its select finds no status row for P, exactly one row is inserted, with
\* resource_id P and the submitted fields; when it finds rows, none is
\* inserted and every row of P gets the submitted fields.  Rows of other
\* resources stay as they are.
C7_UpdateIsUpsert ==
    [][/\ ("username" \in DOMAIN session /\ response' = NoResp /\ req' # req)
          => \A r \in Reqs, P \in RequestIds, f \in Forms :
               UpdateRequest(r, P, f)
               => /\ req'[r].pc = "write" /\ req'[r].resource_id = P /\ req'[r].form = f
                  /\ req'[r].status = (\E s \in status_updates : s.resource_id = P)
                  /\ status_updates' = status_updates
       /\ \A r \in Reqs :
            (req[r].pc = "write" /\ req'[r].pc = "idle")
            => LET P == req[r].resource_id
                   f == req[r].form
                   others(T) == {s \in T : s.resource_id # P}
                   mine(T) == {s \in T : s.resource_id = P}
               IN /\ others(status_updates') = others(status_updates)
                  /\ IF req[r].status
                     THEN /\ \A s \in mine(status_updates') : Fields(s) = f
                          /\ {s.id : s \in status_updates'} = {s.id : s \in status_updates}
                          /\ Cardinality(mine(status_updates')) = Cardinality(mine(status_updates))
                          /\ Cardinality(status_updates') = Cardinality(status_updates)
                     ELSE \E s \in status_updates' :
                            /\ s \notin status_updates
                            /\ s.id \notin {t.id : t \in status_updates}
                            /\ s.resource_id = P /\ Fields(s) = f
                            /\ status_updates' = status_updates \cup {s}
                  /\ resources' = resources /\ upvotes' = upvotes]_vars

\* an update has just been answered, no handler is in flight, and the two
\* rows of one resource carry the same fields
C7_Witness ==
    /\ response = Redirect("update_post", "/")
    /\ \A r \in Reqs : req[r].pc = "idle"
    /\ \E s1, s2 \in status_updates :
         /\ s1 # s2 /\ s1.resource_id = s2.resource_id
         /\ Fields(s1) = Fields(s2)

\* C8 (as claimed): an authenticated create_post POST always leaves one more
\* resource row, with a fresh id, and one more status row, whose resource_id
\* is that id, and leaves the upvotes table alone.
C8_CreateAlwaysInsertsBoth ==
    [][/\ \A r \in Reqs, t \in Titles, f \in Forms :
            ("username" \in DOMAIN session /\ CreateRequest(r, t, f))
            => /\ \E x \in resources' :
                    /\ x.id \notin {y.id : y \in resources}
                    /\ resources' = resources \cup {x}
                    /\ req'[r].resource_id = x.id
               /\ req'[r].pc = "insert_status"
               /\ status_updates' = status_updates /\ upvotes' = upvotes
       /\ \A r \in Reqs :
            (req[r].pc = "insert_status" /\ req'[r].pc = "idle")
            => /\ \E s \in status_updates' :
                    /\ s \notin status_updates
                    /\ s.resource_id = req[r].resource_id
                    /\ status_updates' = status_updates \cup {s}
               /\ resources' = resources /\ upvotes' = upvotes]_vars

C10_RegisterSetsIsAdmin ==
    response = Redirect("register", "/profile")
    => ("is_admin" \in DOMAIN session /\ session["is_admin"] = FALSE)

\* the step wrote nothing: tables, session and handlers in flight are the same
NothingWritten ==
    /\ resources' = resources /\ status_updates' = status_updates
    /\ upvotes' = upvotes /\ session' = session /\ req' = req

\* C11: a request to a login_required handler (profile, logout, update_post,
\* create_post) from a session without a username is answered with a
\* redirect to login and the handler body does not run: no table, no session
\* key and no handler in flight changes.  A row is written by update_post or
\* create_post only by a request whose session had a username when the
\* decorator let it through.
C11_LoginRequiredGates ==
    [][/\ "username" \notin DOMAIN session
          => \A r \in Reqs :
               /\ Profile(r) => (response' = Redirect("profile", "/login") /\ NothingWritten)
               /\ Logout(r) => (response' = Redirect("logout", "/login") /\ NothingWritten)
               /\ CreatePostForm(r)
                    => (response' = Redirect("create_post", "/login") /\ NothingWritten)
               /\ \A P \in RequestIds, f \in Forms :
                    UpdateRequest(r, P, f)
                    => (response' = Redirect("update_post", "/login") /\ NothingWritten)
               /\ \A t \in Titles, f \in Forms :
                    CreateRequest(r, t, f)
                    => (response' = Redirect("create_post", "/login") /\ NothingWritten)
       /\ \A r \in Reqs :
            (req[r].pc = "idle" /\ req'[r].pc \in {"write", "insert_status"})
            => "username" \in DOMAIN session
       /\ resources' # resources => "username" \in DOMAIN session
       /\ status_updates' # status_updates
            => \E r \in Reqs : /\ req[r].pc \in {"write", "insert_status"}
                               /\ req'[r].pc = "idle"]_vars

\* an update_post has just been turned away after a logout, the tables
\* holding rows
C11_Witness ==
    /\ response = Redirect("update_post", "/login")
    /\ session = EmptySession
    /\ status_updates # {}

\* C12: in every reachable state the session's is_admin flag is absent or
\* false, and every answer of the admin page is the redirect to the listing
\* page.
C12_NeverAdmin ==
    /\ ("is_admin" \in DOMAIN session => session["is_admin"] = FALSE)
    /\ (response.handler = "admin" => response = Redirect("admin", "/"))

\* the admin page has just turned away a session that a login populated
C12_Witness ==
    /\ response = Redirect("admin", "/")
    /\ "is_admin" \in DOMAIN session
    /\ "username" \in DOMAIN session

\* C13: a logout from a session with a username empties the session,
\* redirects to login and changes no table.  While the session is empty
\* every request to a login_required handler redirects to login and every
\* upvote is answered 401, and the session leaves the empty state only by a
\* login or a registration the backend accepts.
C13_LogoutClearsSession ==
    [][/\ \A r \in Reqs :
            ("username" \in DOMAIN session /\ Logout(r))
            => /\ session' = EmptySession
               /\ response' = Redirect("logout", "/login")
               /\ resources' = resources /\ status_updates' = status_updates
               /\ upvotes' = upvotes
       /\ (session = EmptySession /\ session' # session)
            => /\ response' \in {Redirect("login", "/profile"), Redirect("register", "/profile")}
               /\ "username" \in DOMAIN session'
       /\ session = EmptySession
            => \A r \in Reqs :
                 /\ (Profile(r) \/ Logout(r) \/ CreatePostForm(r)
                       \/ (\E P \in RequestIds, f \in Forms : UpdateRequest(r, P, f))
                       \/ (\E t \in Titles, f \in Forms : CreateRequest(r, t, f)))
                    => (response'.code = 302 /\ response'.body = "/login" /\ req' = req)
                 /\ (\E rid \in RequestIds : UpvoteRequest(r, rid))
                    => (response' = JsonError("upvote", 401, "Login required") /\ req' = req)]_vars

\* a logout has just emptied the session while a handler that passed the
\* login check is still in flight
C13_Witness ==
    /\ response = Redirect("logout", "/login")
    /\ session = EmptySession
    /\ \E r \in Reqs : req[r].pc # "idle"

\* C14: in every listing, a Post's description, crowd, chips and queue are
\* the status_message, crowd_level, chips_available and queue_length of the
\* status row of its resource with the greatest created_at; a resource with
\* no status row yields four empty strings, one with no upvote row yields
\* upvotes 0, and comments is always 0.
C14_LatestStatusShown ==
    response.handler = "index" =>
        \A i \in 1..Len(response.posts) :
            LET p == response.posts[i]
                S == {s \in status_updates : s.resource_id = p.id}
            IN /\ p.comments = 0
               /\ ({u \in upvotes : u.resource_id = p.id} = {} => p.upvotes = 0)
               /\ IF S = {}
                  THEN p.description = "" /\ p.crowd = "" /\ p.chips = "" /\ p.queue = ""
                  ELSE \E s \in S :
                         /\ \A t \in S : t.created_at <= s.created_at
                         /\ p.description = s.status_message /\ p.crowd = s.crowd_level
                         /\ p.chips = s.chips_available /\ p.queue = s.queue_length

\* a listing of a resource that has an older status row with other values
C14_Witness ==
    /\ response.handler = "index"
    /\ \E i \in 1..Len(response.posts) :
         \E s1, s2 \in status_updates :
            /\ s1.resource_id = response.posts[i].id
            /\ s2.resource_id = response.posts[i].id
            /\ s1.created_at < s2.created_at
            /\ s1.status_message # s2.status_message
            /\ response.posts[i].description = s2.status_message

\* C15: an upvote that passes the check carries the request's resource_id
\* and the session's user_id; its insert adds exactly one row, with a fresh
\* id and that pair, so the rows of the resource_id grow by one; its answer
\* is success with the number of rows of that resource_id the table holds at
\* the re-query, the inserted row among them.
C15_UpvoteInsertsAndCounts ==
    [][\A r \in Reqs :
         /\ (req[r].pc = "idle" /\ req'[r].pc = "insert")
            => /\ "user_id" \in DOMAIN session
               /\ req'[r].user_id = session["user_id"]
               /\ UpvoteRequest(r, req'[r].resource_id)
               /\ upvotes' = upvotes
         /\ (req[r].pc = "insert" /\ req'[r].pc # "insert")
            => /\ req'[r] = [req[r] EXCEPT !.pc = "count"]
               /\ \E u \in upvotes' :
                    /\ u \notin upvotes
                    /\ u.id \notin {v.id : v \in upvotes}
                    /\ u.resource_id = req[r].resource_id
                    /\ u.user_id = req[r].user_id
                    /\ upvotes' = upvotes \cup {u}
               /\ Cardinality({u \in upvotes' : u.resource_id = req[r].resource_id})
                    = Cardinality({u \in upvotes : u.resource_id = req[r].resource_id}) + 1
         /\ (req[r].pc = "count" /\ req'[r].pc # "count")
            => /\ req'[r].pc = "idle"
               /\ upvotes' = upvotes
               /\ \E u \in upvotes : /\ u.resource_id = req[r].resource_id
                                     /\ u.user_id = req[r].user_id
               /\ response'.handler = "upvote" /\ response'.code = 200
               /\ response'.error = ""
               /\ response'.upvotes
                    = Cardinality({u \in upvotes : u.resource_id = req[r].resource_id})]_vars

\* the second user to upvote a resource has just been told the count is 2
C15_Witness ==
    /\ response.handler = "upvote" /\ response.code = 200 /\ response.upvotes = 2
    /\ Cardinality(upvotes) = 2
    /\ \E u1, u2 \in upvotes : u1.resource_id = u2.resource_id /\ u1.user_id # u2.user_id

\* C16: when the resource insert of create_post has succeeded and its status
\* insert fails, the request ends in an error, the new resource row is kept
\* and no status row references it; no step ever takes a resource row away.
C16_PartialCreateKept ==
    [][/\ \A r \in Reqs :
            (req[r].pc = "insert_status" /\ CreateStatus(r, FALSE))
            => /\ response' = ServerError("create_post")
               /\ req'[r].pc = "idle"
               /\ resources' = resources
               /\ \E x \in resources' : x.id = req[r].resource_id
               /\ \A s \in status_updates' : s.resource_id # req[r].resource_id
       /\ \A x \in resources : x \in resources']_vars

\* a create_post has just failed and left a resource without a status row
C16_Witness ==
    /\ response = ServerError("create_post")
    /\ \E x \in resources : \A s \in status_updates : s.resource_id # x.id

\* C17 (as claimed): every status row's and every upvote row's resource_id
\* is the id of a resource row.
C17_ReferentialIntegrity ==
    /\ \A s \in status_updates : \E x \in resources : x.id = s.resource_id
    /\ \A u \in upvotes : \E x \in resources : x.id = u.resource_id

\* C18: no step deletes a row: the ids of each table only grow, so the
\* number of upvote rows of a resource_id never decreases; index, about,
\* profile, admin and the GET of login, register and create_post leave the
\* three tables and the session as they are.
C18_NoDeletes ==
    [][/\ resources' # resources
            => \A x \in resources : \E y \in resources' : y.id = x.id
       /\ status_updates' # status_updates
            => \A s \in status_updates : \E t \in status_updates' : t.id = s.id
       /\ upvotes' # upvotes
            => /\ \A u \in upvotes : \E v \in upvotes' : v.id = u.id
               /\ \A rid \in RequestIds :
                    Cardinality({u \in upvotes' : u.resource_id = rid})
                      >= Cardinality({u \in upvotes : u.resource_id = rid})
       /\ (\/ resources' # resources \/ status_updates' # status_updates
           \/ upvotes' # upvotes \/ session' # session)
            => \A r \in Reqs :
                 ~(About(r) \/ Profile(r) \/ Admin(r)
                     \/ LoginForm(r) \/ RegisterForm(r) \/ CreatePostForm(r)
                     \/ Index(r))]_vars

\* the about page has just been served to a signed-in browser, every table
\* holding a row
C18_Witness ==
    /\ response = Render("about", "about.html", "")
    /\ resources # {} /\ status_updates # {} /\ upvotes # {}
    /\ "username" \in DOMAIN session

\* C19: the session has the key username exactly when it has the key
\* user_id, and the user_id it holds is one the backend's sign-in or sign-up
\* returned; so every upvote row, and every upvote in flight, carries such a
\* user_id, never a missing one.
C19_UsernameIffUserId ==
    LET Issued == {UserIdOf(n) : n \in Usernames}
    IN /\ ("username" \in DOMAIN session) <=> ("user_id" \in DOMAIN session)
       /\ ("user_id" \in DOMAIN session => session["user_id"] \in Issued)
       /\ \A u \in upvotes : u.user_id \in Issued
       /\ \A r \in Reqs : req[r].pc \in {"insert", "count"} => req[r].user_id \in Issued

\* a session that a registration populated has upvoted
C19_Witness ==
    /\ "username" \in DOMAIN session
    /\ "is_admin" \notin DOMAIN session
    /\ \E u \in upvotes : u.user_id = session["user_id"]

\* C20: from tables with at most one status row per resource, with one
\* handler at a time, every reachable state has at most one status row per
\* resource_id.
C20_OneStatusRowSequential ==
    \A s1, s2 \in status_updates : s1.resource_id = s2.resource_id => s1 = s2

\* an update_post has just been answered, and the table holds the status
\* row of a resource next to the row of another resource_id
C20_Witness ==
    /\ response = Redirect("update_post", "/")
    /\ \E s1, s2 \in status_updates :
         /\ s1.resource_id # s2.resource_id
         /\ \E x \in resources : x.id = s1.resource_id

=============================================================================
